---- MODULE Spec2Model ----
(***************************************************************************)
(* Model of ndarray-csv (src/src/lib.rs): the two readers                  *)
(* deserialize_array2 / deserialize_array2_dynamic of Array2Reader and the *)
(* writer serialize_array2 of Array2Writer, driven row by row.  The csv    *)
(* reader is a sequence of rows, each Ok(Vec<A>) or Err(csv::Error); the   *)
(* csv writer is a sink whose every call may fail.                         *)
(***************************************************************************)
EXTENDS Integers, Sequences, FiniteSets, TLC

\* ---------------------------------------------------------------- bounds
MaxRows == 3
MaxCols == 2
\* width of usize, scaled down; isize is one bit narrower
UsizeBits == 6

IsizeMax == 2^(UsizeBits - 1) - 1

\* element values (type A) and the errors the csv layer can hand back
Values == {1, 2}
CsvErrors == {"e1", "e2"}

SeqsUpTo(S, n) == UNION {[1..k -> S] : k \in 0..n}

\* ------------------------------------------------------- data structures
\* one item of self.deserialize::<Vec<A>>(): Result<Vec<A>, csv::Error>
OkRow(v) == [ok |-> TRUE, vals |-> v, err |-> "none"]
ErrRow(e) == [ok |-> FALSE, vals |-> <<>>, err |-> e]
Rows == {OkRow(v) : v \in SeqsUpTo(Values, MaxCols)} \cup {ErrRow(e) : e \in CsvErrors}
Sources == SeqsUpTo(Rows, MaxRows)

\* shape: (usize, usize); one row count beyond isize::MAX is kept
Shapes == ((0..MaxRows) \cup {IsizeMax + 1}) \X (0..MaxCols)

\* ndarray Array2<A>: dimension, strides and the backing buffer
StandardStrides(dim) == <<dim[2], 1>>
FortranStrides(dim) == <<1, dim[1]>>
MkArray(dim, strides, data) == [dim |-> dim, strides |-> strides, data |-> data]
At(a, r, c) == a.data[r * a.strides[1] + c * a.strides[2] + 1]
ArrayEq(a, b) ==
    /\ a.dim = b.dim
    /\ \A r \in 0..(a.dim[1] - 1) : \A c \in 0..(a.dim[2] - 1) : At(a, r, c) = At(b, r, c)
Arrays ==
    UNION {{MkArray(<<r, c>>, s, d) :
                s \in {StandardStrides(<<r, c>>), FortranStrides(<<r, c>>)},
                d \in [1..(r * c) -> Values]} :
           r \in 0..MaxRows, c \in 0..MaxCols}
NoArray == MkArray(<<0, 0>>, <<0, 1>>, <<>>)

\* Result<Array2<A>, ReadError>, plus the two outcomes that are not values
NoResult == [kind |-> "None"]
Panic == [kind |-> "Panic"]
OkArray(a) == [kind |-> "Ok", array |-> a]
Csv(e) == [kind |-> "Csv", err |-> e]
NRows(e, a) == [kind |-> "NRows", expected |-> e, actual |-> a]
NColumns(i, e, a) == [kind |-> "NColumns", at_row_index |-> i, expected |-> e, actual |-> a]

\* Result<(), csv::Error> of the writer
OkUnit == [kind |-> "Ok"]
SinkErr(e) == [kind |-> "Err", err |-> e]

\* what flat_map's closure hands to collect for one row
ItemValues(v) == [kind |-> "Values", vals |-> v]

\* Option<usize>
None == <<>>
Some(n) == <<n>>
UnwrapOr(o, d) == IF o = None THEN d ELSE o[1]

\* ------------------------------------------------------------- operators
\* variants of the closure: a one-based at_row_index, the row's values taken in
\* reverse, the width compared before the decode result, and no width check
FixedClosureOneBased(row_index, row, n_columns) ==
    IF ~row.ok THEN Csv(row.err)
    ELSE IF Len(row.vals) = n_columns THEN ItemValues(row.vals)
    ELSE NColumns(row_index + 1, n_columns, Len(row.vals))
FixedClosureReversed(row_index, row, n_columns) ==
    IF ~row.ok THEN Csv(row.err)
    ELSE IF Len(row.vals) = n_columns
         THEN ItemValues([c \in 1..Len(row.vals) |-> row.vals[Len(row.vals) + 1 - c]])
    ELSE NColumns(row_index, n_columns, Len(row.vals))
FixedClosureWidthFirst(row_index, row, n_columns) ==
    IF Len(row.vals) # n_columns THEN NColumns(row_index, n_columns, Len(row.vals))
    ELSE IF ~row.ok THEN Csv(row.err)
    ELSE ItemValues(row.vals)
FixedClosureNoWidthCheck(row_index, row, n_columns) ==
    IF ~row.ok THEN Csv(row.err) ELSE ItemValues(row.vals)

\* closure of deserialize_array2's flat_map
FixedClosure(row_index, row, n_columns) ==
    IF ~row.ok THEN Csv(row.err)
    ELSE IF Len(row.vals) = n_columns THEN ItemValues(row.vals)
    ELSE NColumns(row_index, n_columns, Len(row.vals))

\* variant of the dynamic closure: expected and actual exchanged
DynClosureSwapped(row_index, row, last_cols) ==
    IF ~row.ok THEN Csv(row.err)
    ELSE IF last_cols # None /\ last_cols[1] # Len(row.vals)
         THEN NColumns(row_index, Len(row.vals), last_cols[1])
    ELSE ItemValues(row.vals)

\* closure of deserialize_array2_dynamic's flat_map (row_count is bumped by the action)
DynClosure(row_index, row, last_cols) ==
    IF ~row.ok THEN Csv(row.err)
    ELSE IF last_cols # None /\ last_cols[1] # Len(row.vals)
         THEN NColumns(row_index, last_cols[1], Len(row.vals))
    ELSE ItemValues(row.vals)

\* ndarray's size check behind into_shape: the product of the non-zero axis
\* lengths must fit in isize, and the size must equal the buffer's length
IntoShapeOk(len, dim) ==
    LET nz1 == IF dim[1] = 0 THEN 1 ELSE dim[1]
        nz2 == IF dim[2] = 0 THEN 1 ELSE dim[2]
    IN  /\ nz1 * nz2 <= IsizeMax
        /\ dim[1] * dim[2] = len

\* and_then(...) of deserialize_array2
FixedReshape(array1, dim) ==
    IF IntoShapeOk(Len(array1), dim)
    THEN OkArray(MkArray(dim, StandardStrides(dim), array1))
    ELSE IF dim[2] = 0 THEN Panic
    ELSE NRows(dim[1], Len(array1) \div dim[2])

\* variant of the dynamic reshape: row_count counted from the buffer, one row
\* at least
DynReshapeOneRow(array1, rc, last_cols) ==
    LET cols == UnwrapOr(last_cols, 0)
        dim == <<IF rc = 0 THEN 1 ELSE rc, cols>>
    IN  IF dim[1] * dim[2] = Len(array1)
        THEN OkArray(MkArray(dim, <<dim[2], 1>>, array1))
        ELSE Panic

\* map(...) of deserialize_array2_dynamic
DynReshape(array1, rc, last_cols) ==
    LET dim == <<rc, UnwrapOr(last_cols, 0)>>
    IN  IF IntoShapeOk(Len(array1), dim)
        THEN OkArray(MkArray(dim, StandardStrides(dim), array1))
        ELSE Panic

\* variants of the row walk: the buffer taken in memory order, and the row
\* taken backwards
OuterIterRowMemoryOrder(a, r) == [c \in 1..a.dim[2] |-> a.data[r * a.dim[2] + c]]
OuterIterRowBackwards(a, r) == [c \in 1..a.dim[2] |-> At(a, r, a.dim[2] - c)]

\* one item of array.outer_iter(), walked by row.iter()
OuterIterRow(a, r) == [c \in 1..a.dim[2] |-> At(a, r, c - 1)]

\* the rows a sink has accepted, read back as a csv source
SinkCall(call, record, outcome) == [call |-> call, record |-> record, outcome |-> outcome]
RECURSIVE SourceFrom(_)
SourceFrom(cs) ==
    IF cs = <<>> THEN <<>>
    ELSE IF cs[1].call = "serialize" /\ cs[1].outcome = "ok"
         THEN <<OkRow(cs[1].record)>> \o SourceFrom(Tail(cs))
         ELSE SourceFrom(Tail(cs))

\* ------------------------------------------------------------------ state
VARIABLES op, shape, source, pulled, exhausted, values, row_count, last_columns,
          array, wrow, calls, wresult, pc, result, roundtrip

vars == <<op, shape, source, pulled, exhausted, values, row_count, last_columns,
          array, wrow, calls, wresult, pc, result, roundtrip>>

Init ==
    /\ op \in {"deserialize_array2", "deserialize_array2_dynamic", "serialize_array2"}
    /\ shape \in IF op = "deserialize_array2" THEN Shapes ELSE {<<0, 0>>}
    /\ source \in IF op = "serialize_array2" THEN {<<>>} ELSE Sources
    /\ array \in IF op = "serialize_array2" THEN Arrays ELSE {NoArray}
    /\ pulled = 0
    /\ exhausted = FALSE
    /\ values = <<>>
    /\ row_count = 0
    /\ last_columns = None
    /\ wrow = 0
    /\ calls = <<>>
    /\ wresult = NoResult
    /\ pc = "run"
    /\ result = NoResult
    /\ roundtrip = FALSE

\* ---------------------------------------------------------------- actions
\* deserialize_array2: collect pulls one more row through the closure
FixedRow ==
    /\ op = "deserialize_array2" /\ pc = "run"
    /\ pulled < Len(source)
    /\ LET item == FixedClosure(pulled, source[pulled + 1], shape[2])
       IN  IF item.kind = "Values"
           THEN /\ values' = values \o item.vals
                /\ UNCHANGED <<pc, result>>
           ELSE /\ result' = item
                /\ pc' = "done"
                /\ UNCHANGED values
    /\ pulled' = pulled + 1
    /\ UNCHANGED <<op, shape, source, exhausted, row_count, last_columns,
                   array, wrow, calls, wresult, roundtrip>>

\* deserialize_array2: the rows are exhausted, the collected Array1 is reshaped
FixedEnd ==
    /\ op = "deserialize_array2" /\ pc = "run"
    /\ pulled = Len(source)
    /\ exhausted' = TRUE
    /\ result' = FixedReshape(values, shape)
    /\ pc' = "done"
    /\ UNCHANGED <<op, shape, source, pulled, values, row_count, last_columns,
                   array, wrow, calls, wresult, roundtrip>>

\* deserialize_array2_dynamic: one more row through the closure
DynRow ==
    /\ op = "deserialize_array2_dynamic" /\ pc = "run"
    /\ pulled < Len(source)
    /\ row_count' = row_count + 1
    /\ LET row == source[pulled + 1]
           item == DynClosure(pulled, row, last_columns)
       IN  IF item.kind = "Values"
           THEN /\ last_columns' = Some(Len(row.vals))
                /\ values' = values \o item.vals
                /\ UNCHANGED <<pc, result>>
           ELSE /\ result' = item
                /\ pc' = "done"
                /\ UNCHANGED <<values, last_columns>>
    /\ pulled' = pulled + 1
    /\ UNCHANGED <<op, shape, source, exhausted, array, wrow, calls, wresult, roundtrip>>

\* deserialize_array2_dynamic: the rows are exhausted, reshape and unwrap
DynEnd ==
    /\ op = "deserialize_array2_dynamic" /\ pc = "run"
    /\ pulled = Len(source)
    /\ exhausted' = TRUE
    /\ result' = DynReshape(values, row_count, last_columns)
    /\ pc' = "done"
    /\ UNCHANGED <<op, shape, source, pulled, values, row_count, last_columns,
                   array, wrow, calls, wresult, roundtrip>>

\* serialize_array2: one iteration of the loop over outer_iter, `?` on failure
WriteRow ==
    /\ op = "serialize_array2" /\ pc = "run"
    /\ wrow < array.dim[1]
    /\ \E outcome \in {"ok"} \cup CsvErrors :
        /\ calls' = Append(calls, SinkCall("serialize", OuterIterRow(array, wrow), outcome))
        /\ IF outcome = "ok"
           THEN /\ wrow' = wrow + 1
                /\ UNCHANGED <<pc, wresult>>
           ELSE /\ wresult' = SinkErr(outcome)
                /\ pc' = "done"
                /\ UNCHANGED wrow
    /\ UNCHANGED <<op, shape, source, pulled, exhausted, values, row_count,
                   last_columns, array, result, roundtrip>>

\* serialize_array2: self.flush()? then Ok(())
WriteFlush ==
    /\ op = "serialize_array2" /\ pc = "run"
    /\ wrow = array.dim[1]
    /\ \E outcome \in {"ok"} \cup CsvErrors :
        /\ calls' = Append(calls, SinkCall("flush", <<>>, outcome))
        /\ wresult' = IF outcome = "ok" THEN OkUnit ELSE SinkErr(outcome)
    /\ pc' = "done"
    /\ UNCHANGED <<op, shape, source, pulled, exhausted, values, row_count,
                   last_columns, array, wrow, result, roundtrip>>

\* crate example: after a successful write the file is read back with the array's shape
ReadBack ==
    /\ op = "serialize_array2" /\ pc = "done"
    /\ wresult.kind = "Ok"
    /\ op' = "deserialize_array2"
    /\ shape' = array.dim
    /\ source' = SourceFrom(calls)
    /\ pc' = "run"
    /\ roundtrip' = TRUE
    /\ UNCHANGED <<pulled, exhausted, values, row_count, last_columns,
                   array, wrow, calls, wresult, result>>

Next ==
    \/ FixedRow
    \/ FixedEnd
    \/ DynRow
    \/ DynEnd
    \/ WriteRow
    \/ WriteFlush
    \/ ReadBack

Spec == Init /\ [][Next]_vars

TypeOK ==
    /\ pc \in {"run", "done"}
    /\ pulled \in 0..MaxRows
    /\ roundtrip \in BOOLEAN

\* ------------------------------------------------------------ properties
IsFixed == op = "deserialize_array2"
IsDynamic == op = "deserialize_array2_dynamic"
Done == pc = "done"
NSource == Len(source)
WellFormedRow(i, width) == source[i].ok /\ Len(source[i].vals) = width
AllWellFormed(width) == \A i \in 1..NSource : WellFormedRow(i, width)
\* width the dynamic reader freezes: that of the first row
FirstWidth == IF NSource = 0 THEN 0 ELSE Len(source[1].vals)
\* 1-based position of the first row satisfying Bad, 0 when there is none
FirstBad(Bad(_)) ==
    IF \E i \in 1..NSource : Bad(i)
    THEN CHOOSE i \in 1..NSource : Bad(i) /\ \A j \in 1..(i - 1) : ~Bad(j)
    ELSE 0
BadFixed(i) == ~WellFormedRow(i, shape[2])
BadDynamic(i) == ~WellFormedRow(i, FirstWidth)
CellsFromSource(a) ==
    \A r \in 0..(a.dim[1] - 1) : \A c \in 0..(a.dim[2] - 1) :
        At(a, r, c) = source[r + 1].vals[c + 1]

\* C1: write/read round trip is the identity: after serialize_array2 returned
\* Ok, reading the rows the sink received with the array's own shape returns Ok
\* with an array of the same shape and the same element at every (r, c).
C1_RoundTrip ==
    (roundtrip /\ Done) => (result.kind = "Ok" /\ ArrayEq(result.array, array))
C1_Witness ==
    /\ roundtrip /\ Done /\ result.kind = "Ok"
    /\ array.dim = <<2, 2>> /\ array.strides = FortranStrides(array.dim)
    /\ At(array, 0, 1) # At(array, 1, 0)

\* C2: fixed-shape read success: a source of exactly R rows, each decoding to
\* exactly C values, gives Ok with an R x C array whose cell (r, c) is the c-th
\* value of the r-th row.
C2_FixedSuccess ==
    (IsFixed /\ Done /\ NSource = shape[1] /\ AllWellFormed(shape[2])) =>
        /\ result.kind = "Ok"
        /\ result.array.dim = shape
        /\ CellsFromSource(result.array)
C2_Witness ==
    /\ IsFixed /\ ~roundtrip /\ Done /\ result.kind = "Ok"
    /\ shape = <<2, 2>>
    /\ source[1].vals[1] # source[1].vals[2]
    /\ source[1].vals # source[2].vals

\* C3: row-count mismatch in fixed-shape mode: k well-formed rows of width C
\* with k # R give NRows{expected: R, actual: k}, never Ok, for every R >= 0
\* and C >= 0.
C3_RowCountMismatch ==
    (IsFixed /\ Done /\ AllWellFormed(shape[2]) /\ NSource # shape[1]) =>
        result = NRows(shape[1], NSource)

\* C4: column-count mismatch in fixed-shape mode is localized: if rows 0..r-1
\* (r < R) have exactly C values and row r decodes to k # C values, the result
\* is NColumns{at_row_index: r, expected: C, actual: k}, whatever rows follow.
C4_ColumnMismatch ==
    (IsFixed /\ Done) =>
        \A i \in 1..NSource :
            ( /\ i - 1 < shape[1]
              /\ \A j \in 1..(i - 1) : WellFormedRow(j, shape[2])
              /\ source[i].ok
              /\ Len(source[i].vals) # shape[2] )
            => result = NColumns(i - 1, shape[2], Len(source[i].vals))
C4_Witness ==
    /\ IsFixed /\ Done /\ result.kind = "NColumns"
    /\ result.at_row_index = 1 /\ result.actual > result.expected
    /\ NSource = 3 /\ ~source[3].ok

\* C5: dynamic-shape read success: N >= 0 rows that all decode and all have
\* width C give Ok with an array of shape (N, C) whose cell (r, c) is the c-th
\* value of row r, the empty source gives the 0 x 0 array, and every Ok result
\* has shape (rows observed, width of the first row).
C5_DynamicSuccess ==
    /\ (IsDynamic /\ Done /\ AllWellFormed(FirstWidth)) =>
          /\ result.kind = "Ok"
          /\ result.array.dim = <<NSource, FirstWidth>>
          /\ CellsFromSource(result.array)
    /\ (IsDynamic /\ result.kind = "Ok") =>
          result.array.dim = <<pulled, FirstWidth>>
C5_Witness ==
    /\ IsDynamic /\ Done /\ result.kind = "Ok"
    /\ result.array.dim = <<3, 2>>
    /\ source[1].vals[1] # source[1].vals[2]

\* C6: dynamic-shape column consistency: if rows 0..i-1 all have the width C of
\* row 0 and row i (i > 0) decodes to width k # C, the result is
\* NColumns{at_row_index: i, expected: C, actual: k}; the dynamic reader never
\* returns NRows.
C6_DynamicColumns ==
    /\ (IsDynamic /\ Done) =>
          \A i \in 2..NSource :
              ( /\ \A j \in 1..(i - 1) : WellFormedRow(j, FirstWidth)
                /\ source[i].ok
                /\ Len(source[i].vals) # FirstWidth )
              => result = NColumns(i - 1, FirstWidth, Len(source[i].vals))
    /\ IsDynamic => result.kind # "NRows"
C6_Witness ==
    /\ IsDynamic /\ Done /\ result.kind = "NColumns"
    /\ result.at_row_index = 2 /\ result.expected = 2 /\ result.actual = 1

\* C7: the calls serialize_array2 makes on the sink are a prefix of
\* [row 0, ..., row N-1, flush], each record holding the logical row in column
\* order whatever the memory layout; every call but the last succeeded; a
\* failing call ends the sequence and its error is the result; without a
\* failure the sequence is complete, flush is its single last call and the
\* result is Ok(()).
ExpectedCall(i) ==
    IF i <= array.dim[1]
    THEN [call |-> "serialize", record |-> [c \in 1..array.dim[2] |-> At(array, i - 1, c - 1)]]
    ELSE [call |-> "flush", record |-> <<>>]
C7_WriterCalls ==
    /\ Len(calls) <= array.dim[1] + 1
    /\ \A i \in 1..Len(calls) :
          /\ calls[i].call = ExpectedCall(i).call
          /\ calls[i].record = ExpectedCall(i).record
    /\ \A i \in 1..(Len(calls) - 1) : calls[i].outcome = "ok"
    /\ (calls # <<>> /\ calls[Len(calls)].outcome # "ok") =>
          wresult = SinkErr(calls[Len(calls)].outcome)
    /\ wresult.kind = "Err" =>
          (calls # <<>> /\ wresult.err = calls[Len(calls)].outcome)
    /\ wresult.kind = "Ok" =>
          /\ Len(calls) = array.dim[1] + 1
          /\ calls[Len(calls)].outcome = "ok"
    /\ (op = "serialize_array2" /\ Done) => wresult.kind \in {"Ok", "Err"}
    /\ (op = "serialize_array2" /\ ~Done) => wresult = NoResult
C7_Witness ==
    /\ op = "serialize_array2" /\ Done /\ wresult.kind = "Err"
    /\ array.dim = <<3, 2>> /\ array.strides = FortranStrides(array.dim)
    /\ Len(calls) = 2
    /\ calls[1].record[1] # calls[1].record[2]

DecidedBy(b) ==
    IF b = 0
    THEN result.kind \notin {"Csv", "NColumns"} /\ pulled = NSource
    ELSE /\ pulled = b
         /\ ~exhausted
         /\ IF ~source[b].ok
            THEN result = Csv(source[b].err)
            ELSE /\ result.kind = "NColumns"
                 /\ result.at_row_index = b - 1
                 /\ result.actual = Len(source[b].vals)
C9_EarliestError ==
    /\ (IsFixed /\ Done) => DecidedBy(FirstBad(BadFixed))
    /\ (IsDynamic /\ Done) => DecidedBy(FirstBad(BadDynamic))
C9_Witness ==
    /\ Done /\ result.kind = "NColumns" /\ result.at_row_index = 0
    /\ NSource = 3 /\ ~source[2].ok /\ pulled = 1

\* C10: neither reader can panic, for any shape and any source: the division
\* on the NRows path only runs with n_columns > 0 and the dynamic reader's
\* reshape-and-unwrap always succeeds.
C10_NoPanic == result.kind # "Panic"

====
